---- MODULE Spec2Model ----
(***************************************************************************)
(* The deploy-completion waiter of scripts/app-management/common           *)
(* (waitForDeploy): a polling loop over client.app.getDeployStatus with an *)
(* attempt budget and a fixed sleep between attempts.                      *)
(*                                                                         *)
(* One invocation is modelled at the granularity of the JavaScript event   *)
(* loop: the code between two awaits runs as one step.  The steps are      *)
(*   Call           the call up to its first await (or its return),        *)
(*   QueryResolves  the status query's promise fulfils; the response is    *)
(*                  destructured and classified, and the function returns  *)
(*                  or arms the timer,                                     *)
(*   QueryRejects   the status query's promise rejects,                    *)
(*   TimerFires     the setTimeout promise fulfils; i++ and the loop head. *)
(***************************************************************************)
EXTENDS Integers, Sequences, FiniteSets

(* ---------------------------------------------------------------------- *)
(* Bounds of the model                                                     *)
(* ---------------------------------------------------------------------- *)

\* explicit maxAttempts arguments range over -NegAttempts .. MaxAttemptsBound
MaxAttemptsBound == 4
NegAttempts == 2
\* a status response carries 0 .. MaxEntries entries in its apps array
MaxEntries == 2
\* two invocations side by side: maxAttempts ranges over 0 .. PairAttempts
PairAttempts == 2
\* a .env has 0 .. MaxLines lines of 0 .. MaxLineLen characters
MaxLines == 2
MaxLineLen == 3
\* the calling script lies 0 .. MaxDepth directories below the file system root
MaxDepth == 10
\* getDeployStatus is given lists of 0 .. MaxIds app ids
MaxIds == 2
\* explicit intervalMs arguments range over 0 .. MaxInterval
MaxInterval == 2
\* the clock is watched in steps of one millisecond for TickBound milliseconds
\* after the start of a query; beyond that it is advanced to the timer's expiry
TickBound == 2

(* ---------------------------------------------------------------------- *)
(* Values                                                                  *)
(* ---------------------------------------------------------------------- *)

\* the JavaScript value undefined (a missing entry or field)
Undefined == "<undefined>"

\* default of the maxAttempts parameter
DefaultMaxAttempts == 30

\* default of the intervalMs parameter
DefaultIntervalMs == 1000

\* the statuses the remote documents
KnownStatuses == {"PROCESSING", "SUCCESS", "FAIL", "CANCEL"}

\* the statuses on which the loop returns
TerminalStatuses == {"SUCCESS", "FAIL", "CANCEL"}

\* what an entry's status field may hold: the documented statuses, two
\* undocumented strings (one of them the waiter's own sentinel), or nothing
StatusValues == KnownStatuses \cup {"TIMEOUT", "UNKNOWN", Undefined}

\* the apps arrays a response may carry
AppsArrays == UNION {[1..n -> [status : StatusValues]] : n \in 0..MaxEntries}

\* the maxAttempts arguments a caller may pass: <<n>> for the number n,
\* <<>> for an omitted argument
Omitted == <<>>
MaxAttemptsArgs == {<<n>> : n \in (0 - NegAttempts)..MaxAttemptsBound} \cup {Omitted}

\* the intervalMs arguments a caller may pass
IntervalMsArgs == {<<n>> : n \in 0..MaxInterval} \cup {Omitted}

\* the appId arguments a caller may pass (opaque to the waiter)
AppIds == {"51", "52"}
NoApp == "<none>"

\* the client object handed to the waiter, as the caller built it
TheClient == [baseUrl |-> "https://example.cybozu.com", auth |-> "password"]

NoOutcome == [success |-> FALSE, status |-> "<none>"]
NoStatus == "<none>"
NoError == "<none>"

VARIABLES
    pc,              \* "idle", "awaitQuery", "sleeping", "returned", "threw"
    client,          \* the client object
    appId,           \* the appId argument
    calls,           \* the operations invoked on client.app, with their apps parameter
    maxAttemptsArg,  \* the argument as passed (Omitted when left out)
    maxAttempts,     \* the parameter's value inside the function
    i,               \* the loop counter
    inFlight,        \* getDeployStatus calls issued and not yet settled
    queries,         \* getDeployStatus calls issued
    suspensions,     \* setTimeout sleeps started
    lastStatus,      \* apps[0]?.status of the latest fulfilled query
    lastLen,         \* apps.length of the latest fulfilled query
    nProcessing,     \* fulfilled queries whose status was PROCESSING
    nUnrecognized,   \* fulfilled queries whose status was neither PROCESSING nor terminal
    nTerminal,       \* fulfilled queries whose status was SUCCESS, FAIL or CANCEL
    failedQueries,   \* rejected queries
    outcome,         \* the value the promise fulfilled with
    error            \* the error the promise rejected with

VARIABLES
    intervalMsArg,   \* the intervalMs argument as passed (Omitted when left out)
    intervalMs,      \* the parameter's value inside the function
    timerDelay,      \* the delay the pending setTimeout was given
    timerLeft,       \* milliseconds until the pending timer expires
    sinceQuery,      \* milliseconds since the latest query was issued
    sinceResponse,   \* milliseconds since the latest response was received
    lastGap,         \* milliseconds between the issue of the latest two queries
    lastSleep        \* milliseconds between the latest response and the query after it

\* the clock and the timer of the invocation
timedVars == <<intervalMsArg, intervalMs, timerDelay, timerLeft, sinceQuery,
               sinceResponse, lastGap, lastSleep>>

VARIABLES
    pw,              \* two invocations, each with its own client: their states
    cells            \* the loop counters of the two invocations

\* two invocations of waitForDeploy next to each other
pairVars == <<pw, cells>>

VARIABLES
    lastApps         \* the apps array of the response received last

\* the responses as they arrived
entriesVars == <<lastApps>>

VARIABLES
    gsPc,            \* where the getDeployStatus call stands
    gsArg,           \* its appIds argument
    gsSilent,        \* options.silent
    gsEnvFile,       \* the .env file createKintoneClient found
    gsClient,        \* the client createKintoneClient built
    gsCalls,         \* the status queries issued, in order
    gsRemote,        \* what the remote answered
    gsResult,        \* what getDeployStatus returned
    gsError,         \* the error getDeployStatus threw
    gsExit           \* the exit code, when the process was ended

\* one programmatic call of getDeployStatus
gsVars ==
    <<gsPc, gsArg, gsSilent, gsEnvFile, gsClient, gsCalls, gsRemote, gsResult,
      gsError, gsExit>>

VARIABLES
    rdPc,            \* where the getRootDir call stands
    rdCaller,        \* callerDir, as its depth below the file system root
    rdPkg,           \* the directories above and at callerDir with a package.json
    rdI,             \* the loop counter i
    rdCur,           \* currentDir
    rdChecks,        \* the number of existsSync calls made
    rdResult         \* the directory returned

\* one call of getRootDir
rdVars == <<rdPc, rdCaller, rdPkg, rdI, rdCur, rdChecks, rdResult>>

VARIABLES
    lePc,            \* where the loadEnv call stands
    leLine,          \* the line the forEach callback was called with
    leCount,         \* the number of lines the callback has been called with
    leEnv,           \* the env object
    leResult,        \* the object loadEnv returned
    leExit           \* the exit code, when the process was ended

\* one call of loadEnv
leVars == <<lePc, leLine, leCount, leEnv, leResult, leExit>>

VARIABLES
    cliPc,           \* where the deploy-app process stands
    cliArgs,         \* appId, revert, noWait as read from the command line
    envFile,         \* the .env file the process found
    credentials,     \* what getKintoneCredentials returned
    cliClient,       \* the client createKintoneClient built
    cliCalls,        \* the remote calls main itself started
    cliDeploy,       \* the promise of the deployApp call
    cliError,        \* the error thrown into main
    cliResult,       \* the value main returned
    exitCode         \* the exit code of the process

\* one run of the deploy-app script
cliVars ==
    <<cliPc, cliArgs, envFile, credentials, cliClient, cliCalls, cliDeploy,
      cliError, cliResult, exitCode>>

\* the state of one waitForDeploy invocation
waiterVars == <<pc, client, appId, calls, maxAttemptsArg, maxAttempts, i, inFlight,
                queries, suspensions, lastStatus, lastLen, nProcessing, nUnrecognized,
                nTerminal, failedQueries, outcome, error>>

counters == <<nProcessing, nUnrecognized, nTerminal, failedQueries, lastStatus, lastLen>>

(* ---------------------------------------------------------------------- *)
(* Pure parts of waitForDeploy                                             *)
(* ---------------------------------------------------------------------- *)

\* maxAttempts = 30: the default applies to an omitted (undefined) argument only
BindMaxAttempts(arg) == IF arg = Omitted THEN DefaultMaxAttempts ELSE arg[1]

\* intervalMs = 1000
BindIntervalMs(arg) == IF arg = Omitted THEN DefaultIntervalMs ELSE arg[1]

\* variant of the timer: the delay is not handed to setTimeout
TimerDelayNone(ms) == 0

\* setTimeout(resolve, intervalMs): the timer expires intervalMs after it is set
TimerDelay(ms) == ms

\* variants of the loop condition: an off-by-one, and a loop that tests the
\* budget only after its first pass
LoopCondInclusive(iv, max) == iv <= max
LoopCondAtLeastOnce(iv, max) == iv = 0 \/ iv < max

\* i < maxAttempts
LoopCond(iv, max) == iv < max

\* variant of apps[0]?.status that looks through all entries for one that
\* has ended
FirstStatusAnyEntry(apps) ==
    IF \E k \in 1..Len(apps) : apps[k].status \in TerminalStatuses
    THEN apps[CHOOSE k \in 1..Len(apps) : apps[k].status \in TerminalStatuses].status
    ELSE IF Len(apps) = 0 THEN Undefined ELSE apps[1].status

\* apps[0]?.status
FirstStatus(apps) == IF Len(apps) = 0 THEN Undefined ELSE apps[1].status

\* variants of the classification: every terminal status reported as a
\* success; SUCCESS not recognised; a reported "TIMEOUT" returned as it is;
\* every status but PROCESSING ending the wait; a missing status ending the
\* wait; FAIL and CANCEL both returned as FAIL; FAIL not recognised; CANCEL
\* not recognised
ClassifyTerminalSucceeds(status) ==
    IF status \in {"SUCCESS", "FAIL", "CANCEL"}
    THEN [ret |-> TRUE, outcome |-> [success |-> TRUE, status |-> status]]
    ELSE [ret |-> FALSE, outcome |-> NoOutcome]
ClassifyMissesSuccess(status) ==
    IF status = "FAIL" \/ status = "CANCEL"
    THEN [ret |-> TRUE, outcome |-> [success |-> FALSE, status |-> status]]
    ELSE [ret |-> FALSE, outcome |-> NoOutcome]
ClassifyPassesTimeout(status) ==
    IF status = "SUCCESS"
    THEN [ret |-> TRUE, outcome |-> [success |-> TRUE, status |-> status]]
    ELSE IF status = "FAIL" \/ status = "CANCEL" \/ status = "TIMEOUT"
    THEN [ret |-> TRUE, outcome |-> [success |-> FALSE, status |-> status]]
    ELSE [ret |-> FALSE, outcome |-> NoOutcome]
ClassifyStrict(status) ==
    IF status = "SUCCESS"
    THEN [ret |-> TRUE, outcome |-> [success |-> TRUE, status |-> status]]
    ELSE IF status # "PROCESSING"
    THEN [ret |-> TRUE, outcome |-> [success |-> FALSE, status |-> status]]
    ELSE [ret |-> FALSE, outcome |-> NoOutcome]
ClassifyRejectsMissing(status) ==
    IF status = "SUCCESS"
    THEN [ret |-> TRUE, outcome |-> [success |-> TRUE, status |-> status]]
    ELSE IF status = "FAIL" \/ status = "CANCEL" \/ status = Undefined
    THEN [ret |-> TRUE, outcome |-> [success |-> FALSE, status |-> status]]
    ELSE [ret |-> FALSE, outcome |-> NoOutcome]
ClassifyReportsFail(status) ==
    IF status = "SUCCESS"
    THEN [ret |-> TRUE, outcome |-> [success |-> TRUE, status |-> status]]
    ELSE IF status = "FAIL" \/ status = "CANCEL"
    THEN [ret |-> TRUE, outcome |-> [success |-> FALSE, status |-> "FAIL"]]
    ELSE [ret |-> FALSE, outcome |-> NoOutcome]
ClassifyMissesFail(status) ==
    IF status = "SUCCESS"
    THEN [ret |-> TRUE, outcome |-> [success |-> TRUE, status |-> status]]
    ELSE IF status = "CANCEL"
    THEN [ret |-> TRUE, outcome |-> [success |-> FALSE, status |-> status]]
    ELSE [ret |-> FALSE, outcome |-> NoOutcome]
ClassifyMissesCancel(status) ==
    IF status = "SUCCESS"
    THEN [ret |-> TRUE, outcome |-> [success |-> TRUE, status |-> status]]
    ELSE IF status = "FAIL"
    THEN [ret |-> TRUE, outcome |-> [success |-> FALSE, status |-> status]]
    ELSE [ret |-> FALSE, outcome |-> NoOutcome]

\* the two if statements of the loop body: ret says whether the function returns
Classify(status) ==
    IF status = "SUCCESS"
    THEN [ret |-> TRUE, outcome |-> [success |-> TRUE, status |-> status]]
    ELSE IF status = "FAIL" \/ status = "CANCEL"
    THEN [ret |-> TRUE, outcome |-> [success |-> FALSE, status |-> status]]
    ELSE [ret |-> FALSE, outcome |-> NoOutcome]

\* return { success: false, status: "TIMEOUT" }
TimeoutOutcome == [success |-> FALSE, status |-> "TIMEOUT"]

(* ---------------------------------------------------------------------- *)
(* Steps                                                                   *)
(* ---------------------------------------------------------------------- *)

\* variant of the request: the deployment is started again instead of observed
StatusRequestRedeploys(app) == [op |-> "deployApp", apps |-> <<app>>]

\* client.app.getDeployStatus({ apps: [appId] })
StatusRequest(app) == [op |-> "getDeployStatus", apps |-> <<app>>]

\* variant of the loop head: the query is issued but not awaited, the
\* function goes on to its sleep
LoopHeadNoAwait(iv, max, app) ==
    IF LoopCond(iv, max)
    THEN /\ pc' = "sleeping"
         /\ calls' = calls \cup {StatusRequest(app)}
         /\ queries' = queries + 1
         /\ inFlight' = inFlight + 1
         /\ suspensions' = suspensions + 1
         /\ UNCHANGED outcome
    ELSE /\ pc' = "returned"
         /\ outcome' = TimeoutOutcome
         /\ UNCHANGED <<calls, queries, inFlight, suspensions>>

\* the loop head with counter value iv: issue and await the next query, or
\* leave the loop and return the timeout outcome
LoopHead(iv, max, app) ==
    IF LoopCond(iv, max)
    THEN /\ pc' = "awaitQuery"
         /\ calls' = calls \cup {StatusRequest(app)}
         /\ queries' = queries + 1
         /\ inFlight' = inFlight + 1
         /\ UNCHANGED <<outcome, suspensions>>
    ELSE /\ pc' = "returned"
         /\ outcome' = TimeoutOutcome
         /\ UNCHANGED <<calls, queries, inFlight, suspensions>>

\* waitForDeploy(client, appId, arg): parameters bound, let i = 0, loop head
Call ==
    /\ pc = "idle"
    /\ \E app \in AppIds, arg \in MaxAttemptsArgs :
         /\ appId' = app
         /\ maxAttemptsArg' = arg
         /\ maxAttempts' = BindMaxAttempts(arg)
         /\ i' = 0
         /\ LoopHead(0, BindMaxAttempts(arg), app)
    /\ UNCHANGED <<client, counters, error>>

\* variant without the suspension after the last attempt: TIMEOUT is returned
\* as soon as the last response is seen not to have ended
QueryResolvesSkipsLastSleep(apps) ==
    /\ pc = "awaitQuery"
    /\   LET status == FirstStatus(apps)
             c == Classify(status)
         IN /\ inFlight' = inFlight - 1
            /\ lastStatus' = status
            /\ lastLen' = Len(apps)
            /\ nProcessing' = nProcessing + (IF status = "PROCESSING" THEN 1 ELSE 0)
            /\ nTerminal' = nTerminal + (IF status \in TerminalStatuses THEN 1 ELSE 0)
            /\ nUnrecognized' = nUnrecognized +
                   (IF status \notin TerminalStatuses \cup {"PROCESSING"} THEN 1 ELSE 0)
            /\ IF c.ret
               THEN /\ pc' = "returned"
                    /\ outcome' = c.outcome
                    /\ UNCHANGED suspensions
               ELSE IF i + 1 >= maxAttempts
               THEN /\ pc' = "returned"
                    /\ outcome' = TimeoutOutcome
                    /\ UNCHANGED suspensions
               ELSE /\ pc' = "sleeping"
                    /\ suspensions' = suspensions + 1
                    /\ UNCHANGED outcome
    /\ UNCHANGED <<client, appId, calls, maxAttemptsArg, maxAttempts, i, queries,
                   failedQueries, error>>

\* the awaited getDeployStatus fulfils with { apps }
QueryResolvesWith(apps) ==
    /\ pc = "awaitQuery"
    /\   LET status == FirstStatus(apps)
             c == Classify(status)
         IN /\ inFlight' = inFlight - 1
            /\ lastStatus' = status
            /\ lastLen' = Len(apps)
            /\ nProcessing' = nProcessing + (IF status = "PROCESSING" THEN 1 ELSE 0)
            /\ nTerminal' = nTerminal + (IF status \in TerminalStatuses THEN 1 ELSE 0)
            /\ nUnrecognized' = nUnrecognized +
                   (IF status \notin TerminalStatuses \cup {"PROCESSING"} THEN 1 ELSE 0)
            /\ IF c.ret
               THEN /\ pc' = "returned"
                    /\ outcome' = c.outcome
                    /\ UNCHANGED suspensions
               ELSE /\ pc' = "sleeping"
                    /\ suspensions' = suspensions + 1
                    /\ UNCHANGED outcome
    /\ UNCHANGED <<client, appId, calls, maxAttemptsArg, maxAttempts, i, queries,
                   failedQueries, error>>

\* the awaited getDeployStatus fulfils, with any response
QueryResolves == \E apps \in AppsArrays : QueryResolvesWith(apps)

\* variant of the rejection: the error is swallowed and the loop goes on
QueryRejectsRetried ==
    /\ pc = "awaitQuery"
    /\ inFlight' = inFlight - 1
    /\ failedQueries' = failedQueries + 1
    /\ pc' = "sleeping"
    /\ suspensions' = suspensions + 1
    /\ UNCHANGED <<client, appId, calls, maxAttemptsArg, maxAttempts, i, queries,
                   lastStatus, lastLen, nProcessing, nUnrecognized, nTerminal, outcome,
                   error>>

\* the awaited getDeployStatus rejects: nothing catches it
QueryRejects ==
    /\ pc = "awaitQuery"
    /\ inFlight' = inFlight - 1
    /\ failedQueries' = failedQueries + 1
    /\ pc' = "threw"
    /\ error' = "QueryError"
    /\ UNCHANGED <<client, appId, calls, maxAttemptsArg, maxAttempts, i, queries,
                   suspensions, lastStatus, lastLen, nProcessing, nUnrecognized,
                   nTerminal, outcome>>

\* variant of the sleep: the timer's callback does not resolve the promise
TimerFiresLost ==
    /\ pc = "sleeping"
    /\ UNCHANGED waiterVars

\* the setTimeout promise fulfils: i++, loop head
TimerFires ==
    /\ pc = "sleeping"
    /\ i' = i + 1
    /\ LoopHead(i + 1, maxAttempts, appId)
    /\ UNCHANGED <<client, appId, maxAttemptsArg, maxAttempts, counters, error>>

Init ==
    /\ pc = "idle"
    /\ client = TheClient
    /\ appId = NoApp
    /\ calls = {}
    /\ maxAttemptsArg = Omitted
    /\ maxAttempts = 0
    /\ i = 0
    /\ inFlight = 0
    /\ queries = 0
    /\ suspensions = 0
    /\ lastStatus = NoStatus
    /\ lastLen = 0
    /\ nProcessing = 0
    /\ nUnrecognized = 0
    /\ nTerminal = 0
    /\ failedQueries = 0
    /\ outcome = NoOutcome
    /\ error = NoError

\* the clock is not watched
TimedOff ==
    /\ intervalMsArg = Omitted
    /\ intervalMs = 0
    /\ timerDelay = 0
    /\ timerLeft = 0
    /\ sinceQuery = 0
    /\ sinceResponse = 0
    /\ lastGap = 0
    /\ lastSleep = 0

\* no invocation of the pair has been called
PairOff ==
    /\ pw = [w \in {1, 2} |->
               [pc |-> "idle", max |-> 0, script |-> <<>>, after |-> FALSE,
                queries |-> 0, suspensions |-> 0, calls |-> {},
                outcome |-> NoOutcome, error |-> NoError]]
    /\ cells = [w \in {1, 2} |-> 0]

\* a field the .env does not set reads as undefined
NoEnv ==
    [KINTONE_DOMAIN |-> Undefined, KINTONE_USERNAME |-> Undefined,
     KINTONE_PASSWORD |-> Undefined]
NoArgs == [appId |-> NoApp, revert |-> FALSE, noWait |-> FALSE]
NoCredentials == [domain |-> "<none>"]
NoClient == [baseUrl |-> "<none>"]
\* the exit code is <<code>> once the process has ended
NoExit == <<>>

\* the script has not been started
CliOff ==
    /\ cliPc = "start"
    /\ cliArgs = NoArgs
    /\ envFile = [readable |-> FALSE, env |-> NoEnv]
    /\ credentials = NoCredentials
    /\ cliClient = NoClient
    /\ cliCalls = {}
    /\ cliDeploy = "none"
    /\ cliError = NoError
    /\ cliResult = NoOutcome
    /\ exitCode = NoExit

\* no response has arrived
EntriesOff == lastApps = <<>>

NoResult == [apps |-> <<[app |-> "<none>", status |-> "<none>"]>>]

\* getDeployStatus has not been called
GsOff ==
    /\ gsPc = "idle"
    /\ gsArg = <<>>
    /\ gsSilent = FALSE
    /\ gsEnvFile = [readable |-> FALSE, env |-> NoEnv]
    /\ gsClient = NoClient
    /\ gsCalls = <<>>
    /\ gsRemote = NoResult
    /\ gsResult = NoResult
    /\ gsError = NoError
    /\ gsExit = NoExit

\* getRootDir has not been called
RdOff ==
    /\ rdPc = "idle"
    /\ rdCaller = 0
    /\ rdPkg = {}
    /\ rdI = 0
    /\ rdCur = 0
    /\ rdChecks = 0
    /\ rdResult = <<>>

\* const env = {}
EmptyEnv == <<>>

\* loadEnv has not been called
LeOff ==
    /\ lePc = "idle"
    /\ leLine = <<>>
    /\ leCount = 0
    /\ leEnv = EmptyEnv
    /\ leResult = EmptyEnv
    /\ leExit = NoExit

\* the parts next to the waiter, its clock, the pair and the script
asideVars == <<entriesVars, gsVars, rdVars, leVars>>
AsideOff == EntriesOff /\ GsOff /\ RdOff /\ LeOff

vars == <<waiterVars, timedVars, pairVars, cliVars, asideVars>>

\* what another part of the model leaves alone
beyondWaiter == <<timedVars, pairVars, cliVars, asideVars>>
beyondTimed == <<pairVars, cliVars, asideVars>>
beyondPair == <<waiterVars, timedVars, cliVars, asideVars>>
beyondCli == <<timedVars, pairVars, asideVars>>
beyondEntries == <<timedVars, pairVars, cliVars, gsVars, rdVars, leVars>>
beyondGs == <<waiterVars, timedVars, pairVars, cliVars, entriesVars, rdVars, leVars>>
beyondRd == <<waiterVars, timedVars, pairVars, cliVars, entriesVars, gsVars, leVars>>
beyondLe == <<waiterVars, timedVars, pairVars, cliVars, entriesVars, gsVars, rdVars>>

\* one invocation, any arguments, any responses; time is left out
Next ==
    \/ Call /\ UNCHANGED beyondWaiter
    \/ QueryResolves /\ UNCHANGED beyondWaiter
    \/ QueryRejects /\ UNCHANGED beyondWaiter
    \/ TimerFires /\ UNCHANGED beyondWaiter

InitSpec == Init /\ TimedOff /\ PairOff /\ CliOff /\ AsideOff

(* ---------------------------------------------------------------------- *)
(* The invocation with its clock                                           *)
(* ---------------------------------------------------------------------- *)

\* the call, with an explicit maxAttempts and any intervalMs
TimedCall ==
    /\ Call
    /\ maxAttemptsArg' # Omitted
    /\ \E arg \in IntervalMsArgs :
         /\ intervalMsArg' = arg
         /\ intervalMs' = BindIntervalMs(arg)
    /\ UNCHANGED <<timerDelay, timerLeft, sinceQuery, sinceResponse, lastGap, lastSleep>>

\* the responses of the timed invocation: no entry, or the one entry asked for
TimedResponses == {<<>>} \cup {<<e>> : e \in [status : StatusValues]}

\* the response arrives; a non-terminal one sets the timer
TimedQueryResolves ==
    /\ \E apps \in TimedResponses : QueryResolvesWith(apps)
    /\ sinceResponse' = 0
    /\ IF pc' = "sleeping"
       THEN /\ timerDelay' = TimerDelay(intervalMs)
            /\ timerLeft' = TimerDelay(intervalMs)
       ELSE UNCHANGED <<timerDelay, timerLeft>>
    /\ UNCHANGED <<intervalMsArg, intervalMs, sinceQuery, lastGap, lastSleep>>

TimedQueryRejects ==
    /\ QueryRejects
    /\ UNCHANGED timedVars

\* the timer has expired and its callback runs; a next query starts the
\* clocks anew
TimedTimerFires ==
    /\ timerLeft = 0
    /\ TimerFires
    /\ IF pc' = "awaitQuery"
       THEN /\ lastGap' = sinceQuery
            /\ lastSleep' = sinceResponse
            /\ sinceQuery' = 0
            /\ sinceResponse' = 0
       ELSE UNCHANGED <<lastGap, lastSleep, sinceQuery, sinceResponse>>
    /\ UNCHANGED <<intervalMsArg, intervalMs, timerDelay, timerLeft>>

\* time passes while the query is in flight or the timer is pending: one
\* millisecond, or all that is left until the timer expires
Tick ==
    /\ pc \in {"awaitQuery", "sleeping"}
    /\ \E d \in {1, timerLeft} :
         /\ d > 0
         /\ d = 1 => sinceQuery < TickBound
         /\ d > 1 => pc = "sleeping"
         /\ sinceQuery' = sinceQuery + d
         /\ sinceResponse' = IF pc = "sleeping" THEN sinceResponse + d ELSE sinceResponse
         /\ timerLeft' = IF timerLeft > d THEN timerLeft - d ELSE 0
    /\ UNCHANGED <<waiterVars, intervalMsArg, intervalMs, timerDelay, lastGap, lastSleep>>

NextTimed ==
    \/ TimedCall /\ UNCHANGED beyondTimed
    \/ TimedQueryResolves /\ UNCHANGED beyondTimed
    \/ TimedQueryRejects /\ UNCHANGED beyondTimed
    \/ TimedTimerFires /\ UNCHANGED beyondTimed
    \/ Tick /\ UNCHANGED beyondTimed

SpecTimed == InitSpec /\ [][NextTimed]_vars

Spec == InitSpec /\ [][Next]_vars

\* every pending query is answered or fails, every pending timer fires
FairSpec ==
    /\ Spec
    /\ WF_vars((QueryResolves \/ QueryRejects) /\ UNCHANGED beyondWaiter)
    /\ WF_vars(TimerFires /\ UNCHANGED beyondWaiter)

(* ---------------------------------------------------------------------- *)
(* Two invocations, each with a client of its own                          *)
(* ---------------------------------------------------------------------- *)

Waiters == {1, 2}
Other(w) == 3 - w

\* the two invocations wait for different apps
AppOf(w) == IF w = 1 THEN "51" ELSE "52"

\* what a scripted client does with a query: report a status, or fail
PairResponses == {"PROCESSING", "SUCCESS", "FAIL", "REJECT"}

\* the scripts of a client that is asked m times
Scripts(m) == [1..m -> PairResponses]

\* the client's answer to its k-th query
ResponseAt(script, k) == IF k <= Len(script) THEN script[k] ELSE "PROCESSING"

Ended == {"returned", "threw"}

\* variant of the counter's place: one counter at module level, used by
\* every invocation
CounterCellShared(w) == 1

\* let i: every invocation has a counter of its own
CounterCell(w) == w

\* variant of the counter's start: the counter is not set at the call, the
\* invocation goes on from where the other one stands
InitialCounterLeftOver(w, cs) == cs[Other(w)]

\* let i = 0
InitialCounter(w, cs) == 0

\* the loop head of an invocation whose state is r, with counter value iv
PLoopHead(r, iv, w) ==
    IF LoopCond(iv, r.max)
    THEN [r EXCEPT !.pc = "awaitQuery",
                   !.queries = @ + 1,
                   !.calls = @ \cup {StatusRequest(AppOf(w))}]
    ELSE [r EXCEPT !.pc = "returned", !.outcome = TimeoutOutcome]

\* waitForDeploy(client_w, AppOf(w), m) is called; client_w follows script sc
PCall(w) ==
    /\ pw[w].pc = "idle"
    /\ \E m \in 0..PairAttempts :
         \E sc \in Scripts(m) :
            LET start == InitialCounter(w, cells)
                r == [pw[w] EXCEPT !.max = m,
                                   !.script = sc,
                                   !.after = (pw[Other(w)].pc \in Ended)]
            IN /\ cells' = [cells EXCEPT ![CounterCell(w)] = start]
               /\ pw' = [pw EXCEPT ![w] = PLoopHead(r, start, w)]

\* the query of invocation w is answered with a status
PQueryResolves(w) ==
    /\ pw[w].pc = "awaitQuery"
    /\ ResponseAt(pw[w].script, pw[w].queries) # "REJECT"
    /\ LET c == Classify(ResponseAt(pw[w].script, pw[w].queries))
       IN pw' = [pw EXCEPT ![w] =
                   IF c.ret
                   THEN [@ EXCEPT !.pc = "returned", !.outcome = c.outcome]
                   ELSE [@ EXCEPT !.pc = "sleeping", !.suspensions = @ + 1]]
    /\ UNCHANGED cells

\* the query of invocation w fails
PQueryRejects(w) ==
    /\ pw[w].pc = "awaitQuery"
    /\ ResponseAt(pw[w].script, pw[w].queries) = "REJECT"
    /\ pw' = [pw EXCEPT ![w] = [@ EXCEPT !.pc = "threw", !.error = "QueryError"]]
    /\ UNCHANGED cells

\* the timer of invocation w fires: i++, loop head
PTimerFires(w) ==
    /\ pw[w].pc = "sleeping"
    /\ LET next == cells[CounterCell(w)] + 1
       IN /\ cells' = [cells EXCEPT ![CounterCell(w)] = next]
          /\ pw' = [pw EXCEPT ![w] = PLoopHead(pw[w], next, w)]

NextPair ==
    \/ \E w \in Waiters : PCall(w) /\ UNCHANGED beyondPair
    \/ \E w \in Waiters : PQueryResolves(w) /\ UNCHANGED beyondPair
    \/ \E w \in Waiters : PQueryRejects(w) /\ UNCHANGED beyondPair
    \/ \E w \in Waiters : PTimerFires(w) /\ UNCHANGED beyondPair

SpecPair == InitSpec /\ [][NextPair]_vars

\* the loop run from counter value iv with q queries made so far, nothing
\* else going on: how it ends
RECURSIVE RunFrom(_, _, _, _)
RunFrom(max, script, iv, q) ==
    IF ~LoopCond(iv, max)
    THEN [pc |-> "returned", outcome |-> TimeoutOutcome, error |-> NoError,
          queries |-> q, suspensions |-> q]
    ELSE LET resp == ResponseAt(script, q + 1)
         IN IF resp = "REJECT"
            THEN [pc |-> "threw", outcome |-> NoOutcome, error |-> "QueryError",
                  queries |-> q + 1, suspensions |-> q]
            ELSE IF Classify(resp).ret
            THEN [pc |-> "returned", outcome |-> Classify(resp).outcome,
                  error |-> NoError, queries |-> q + 1, suspensions |-> q]
            ELSE RunFrom(max, script, iv + 1, q + 1)

\* one invocation run by itself against a client that follows script
RunAlone(max, script) == RunFrom(max, script, 0, 0)

\* how an invocation of the pair ended
Result(r) ==
    [pc |-> r.pc, outcome |-> r.outcome, error |-> r.error,
     queries |-> r.queries, suspensions |-> r.suspensions]

(* ---------------------------------------------------------------------- *)
(* The invocation with the responses kept as they arrived                  *)
(* ---------------------------------------------------------------------- *)

\* waitForDeploy(client, appId, maxAttempts) is called
EntriesCall ==
    /\ Call
    /\ maxAttemptsArg' # Omitted
    /\ UNCHANGED lastApps

\* the response { apps } arrives
EntriesQueryResolves ==
    \E apps \in AppsArrays :
        /\ QueryResolvesWith(apps)
        /\ lastApps' = apps

NextEntries ==
    \/ EntriesCall /\ UNCHANGED beyondEntries
    \/ EntriesQueryResolves /\ UNCHANGED beyondEntries
    \/ QueryRejects /\ UNCHANGED <<lastApps, beyondEntries>>
    \/ TimerFires /\ UNCHANGED <<lastApps, beyondEntries>>

SpecEntries == InitSpec /\ [][NextEntries]_vars

(* ---------------------------------------------------------------------- *)
(* The deploy-app script                                                   *)
(* ---------------------------------------------------------------------- *)

\* what a line KEY=value of the .env leaves in env[KEY]: nothing, the empty
\* string, or a value
DomainValues == {Undefined, "", "example.cybozu.com"}
UsernameValues == {Undefined, "", "user"}
PasswordValues == {Undefined, "", "secret"}

\* the objects loadEnv can return
Envs ==
    [KINTONE_DOMAIN : DomainValues, KINTONE_USERNAME : UsernameValues,
     KINTONE_PASSWORD : PasswordValues]

\* the .env file: readFileSync throws, or the file parses to an env
EnvFiles ==
    {[readable |-> FALSE, env |-> NoEnv]} \cup
    {[readable |-> TRUE, env |-> e] : e \in Envs}

\* variant of !x that only catches a field that is not set
FalsyUndefinedOnly(v) == v = Undefined

\* !x for a field that is undefined or a string
Falsy(v) == v = Undefined \/ v = ""

\* if (!domain || !username || !password)
MissingCredentials(env) ==
    \/ Falsy(env.KINTONE_DOMAIN)
    \/ Falsy(env.KINTONE_USERNAME)
    \/ Falsy(env.KINTONE_PASSWORD)

\* return { domain, username, password, baseUrl: `https://${domain}` }
GetKintoneCredentials(env) ==
    [domain |-> env.KINTONE_DOMAIN,
     username |-> env.KINTONE_USERNAME,
     password |-> env.KINTONE_PASSWORD,
     baseUrl |-> "https://" \o env.KINTONE_DOMAIN]

\* new KintoneRestAPIClient({ baseUrl, auth: { username, password } })
NewClient(cred) ==
    [baseUrl |-> cred.baseUrl,
     auth |-> [username |-> cred.username, password |-> cred.password]]

\* client.app.deployApp({ apps: [{ app: appId }], revert })
DeployRequest(app, rv) ==
    [op |-> "deployApp", apps |-> <<[app |-> app]>>, revert |-> rv]

\* the promise main() returns is rejected and nothing handles it: the
\* runtime prints the error and ends the process with this code
UnhandledRejectionExit == 1

\* variant without the process.exit(1) of the unsuccessful branch
ExitOnResultAlwaysZero(result) == 0

\* if (result.success) { ... } else { ...; process.exit(1) }; return result
ExitOnResult(result) == IF result.success THEN 0 ELSE 1

\* process.exit(code), or the process running out of work with code 0
Exit(code) ==
    /\ cliPc' = "exited"
    /\ exitCode' = <<code>>

\* the script starts: the arguments are read; with an app id main() runs
\* createKintoneClient up to its import: loadEnv, getKintoneCredentials
CliStart ==
    /\ cliPc = "start"
    /\ \E app \in AppIds \cup {NoApp}, rv \in BOOLEAN, nw \in BOOLEAN :
         /\ cliArgs' = [appId |-> app, revert |-> rv, noWait |-> nw]
         /\ IF app = NoApp
            THEN /\ Exit(1)
                 /\ UNCHANGED <<envFile, credentials>>
            ELSE \E file \in EnvFiles :
                    /\ envFile' = file
                    /\ IF ~file.readable
                       THEN Exit(1) /\ UNCHANGED credentials
                       ELSE IF MissingCredentials(file.env)
                       THEN Exit(1) /\ UNCHANGED credentials
                       ELSE /\ credentials' = GetKintoneCredentials(file.env)
                            /\ cliPc' = "importing"
                            /\ UNCHANGED exitCode
    /\ UNCHANGED <<cliClient, cliCalls, cliDeploy, cliError, cliResult>>
    /\ UNCHANGED waiterVars

\* the import fulfils: the client is built, main goes on and starts deployApp
ImportResolves ==
    /\ cliPc = "importing"
    /\ cliClient' = NewClient(credentials)
    /\ cliCalls' = cliCalls \cup {DeployRequest(cliArgs.appId, cliArgs.revert)}
    /\ cliDeploy' = "pending"
    /\ cliPc' = "awaitDeploy"
    /\ UNCHANGED <<cliArgs, envFile, credentials, cliError, cliResult, exitCode>>
    /\ UNCHANGED waiterVars

\* the import or the constructor throws: createKintoneClient rejects outside
\* the try of main, and main() has no handler
ImportRejects ==
    /\ cliPc = "importing"
    /\ cliError' = "ClientError"
    /\ Exit(UnhandledRejectionExit)
    /\ UNCHANGED <<cliArgs, envFile, credentials, cliClient, cliCalls, cliDeploy,
                   cliResult>>
    /\ UNCHANGED waiterVars

\* variant that looks at --no-wait before --revert
DeployResolvesNoWaitFirst ==
    /\ cliPc = "awaitDeploy"
    /\ cliDeploy' = "fulfilled"
    /\ IF cliArgs.noWait
       THEN /\ cliResult' = [success |-> TRUE, status |-> "PROCESSING"]
            /\ Exit(0)
            /\ UNCHANGED waiterVars
       ELSE IF cliArgs.revert
       THEN /\ cliResult' = [success |-> TRUE, status |-> "REVERTED"]
            /\ Exit(0)
            /\ UNCHANGED waiterVars
       ELSE /\ Call
            /\ appId' = cliArgs.appId
            /\ maxAttemptsArg' = Omitted
            /\ cliPc' = "waiting"
            /\ UNCHANGED <<cliResult, exitCode>>
    /\ UNCHANGED <<cliArgs, envFile, credentials, cliClient, cliCalls, cliError>>

\* deployApp fulfils: --revert and --no-wait return, otherwise waitForDeploy
\* is called with the client and the app id
DeployResolves ==
    /\ cliPc = "awaitDeploy"
    /\ cliDeploy' = "fulfilled"
    /\ IF cliArgs.revert
       THEN /\ cliResult' = [success |-> TRUE, status |-> "REVERTED"]
            /\ Exit(0)
            /\ UNCHANGED waiterVars
       ELSE IF cliArgs.noWait
       THEN /\ cliResult' = [success |-> TRUE, status |-> "PROCESSING"]
            /\ Exit(0)
            /\ UNCHANGED waiterVars
       ELSE /\ Call
            /\ appId' = cliArgs.appId
            /\ maxAttemptsArg' = Omitted
            /\ cliPc' = "waiting"
            /\ UNCHANGED <<cliResult, exitCode>>
    /\ UNCHANGED <<cliArgs, envFile, credentials, cliClient, cliCalls, cliError>>

\* variant with the deployApp call outside the try and its failure swallowed:
\* main goes on to wait
DeployRejectsSwallowed ==
    /\ cliPc = "awaitDeploy"
    /\ cliDeploy' = "rejected"
    /\ cliError' = "DeployError"
    /\ Call
    /\ appId' = cliArgs.appId
    /\ maxAttemptsArg' = Omitted
    /\ cliPc' = "waiting"
    /\ UNCHANGED <<cliArgs, envFile, credentials, cliClient, cliCalls, cliResult,
                   exitCode>>

\* deployApp rejects: the catch of main
DeployRejects ==
    /\ cliPc = "awaitDeploy"
    /\ cliDeploy' = "rejected"
    /\ cliError' = "DeployError"
    /\ Exit(1)
    /\ UNCHANGED <<cliArgs, envFile, credentials, cliClient, cliCalls, cliResult>>
    /\ UNCHANGED waiterVars

\* waitForDeploy returned its outcome to main
WaitReturns ==
    /\ cliPc = "waiting"
    /\ pc = "returned"
    /\ cliResult' = outcome
    /\ Exit(ExitOnResult(outcome))
    /\ UNCHANGED <<cliArgs, envFile, credentials, cliClient, cliCalls, cliDeploy,
                   cliError>>
    /\ UNCHANGED waiterVars

\* waitForDeploy threw: the catch of main
WaitThrows ==
    /\ cliPc = "waiting"
    /\ pc = "threw"
    /\ cliError' = error
    /\ Exit(1)
    /\ UNCHANGED <<cliArgs, envFile, credentials, cliClient, cliCalls, cliDeploy,
                   cliResult>>
    /\ UNCHANGED waiterVars

NextCli ==
    \/ CliStart /\ UNCHANGED beyondCli
    \/ ImportResolves /\ UNCHANGED beyondCli
    \/ ImportRejects /\ UNCHANGED beyondCli
    \/ DeployResolves /\ UNCHANGED beyondCli
    \/ DeployRejects /\ UNCHANGED beyondCli
    \/ QueryResolves /\ UNCHANGED <<cliVars, beyondCli>>
    \/ QueryRejects /\ UNCHANGED <<cliVars, beyondCli>>
    \/ TimerFires /\ UNCHANGED <<cliVars, beyondCli>>
    \/ WaitReturns /\ UNCHANGED beyondCli
    \/ WaitThrows /\ UNCHANGED beyondCli

SpecCli == InitSpec /\ [][NextCli]_vars

(* ---------------------------------------------------------------------- *)
(* getDeployStatus, called from a program                                  *)
(* ---------------------------------------------------------------------- *)

\* the lists of app ids a caller passes
IdLists == UNION {[1..n -> AppIds] : n \in 0..MaxIds}

\* the appIds argument: left out, or a list
GsArgs == {Omitted} \cup {<<l>> : l \in IdLists}

\* what the remote can answer: an entry per app, each with a status
StatusResults ==
    {[apps |-> a] :
        a \in UNION {[1..n -> [app : AppIds, status : StatusValues]] :
                        n \in 0..MaxEntries}}

\* variant of the argument check that lets an empty list through
NoAppIdsMissingOnly(arg) == arg = Omitted

\* !appIds || appIds.length === 0
NoAppIds(arg) == arg = Omitted \/ Len(arg[1]) = 0

\* variant of the request that asks for the first app only
StatusRequestAllFirstOnly(ids) ==
    [op |-> "getDeployStatus", apps |-> <<ids[1]>>]

\* client.app.getDeployStatus({ apps: appIds })
StatusRequestAll(ids) == [op |-> "getDeployStatus", apps |-> ids]

\* getDeployStatus(appIds, options) is called and runs up to its first
\* await: the argument check, then createKintoneClient up to its import
GsCall ==
    /\ gsPc = "idle"
    /\ \E arg \in GsArgs, silent \in BOOLEAN :
         /\ gsArg' = arg
         /\ gsSilent' = silent
         /\ IF NoAppIds(arg)
            THEN /\ gsPc' = "threw"
                 /\ gsError' = "At least one App ID is required"
                 /\ UNCHANGED <<gsEnvFile, gsExit>>
            ELSE \E file \in EnvFiles :
                    /\ gsEnvFile' = file
                    /\ gsError' = gsError
                    /\ IF ~file.readable \/ MissingCredentials(file.env)
                       THEN gsPc' = "exited" /\ gsExit' = <<1>>
                       ELSE gsPc' = "importing" /\ gsExit' = gsExit
    /\ UNCHANGED <<gsClient, gsCalls, gsRemote, gsResult>>

\* the import fulfils: the client is built and the one query is issued
GsImportResolves ==
    /\ gsPc = "importing"
    /\ gsClient' = NewClient(GetKintoneCredentials(gsEnvFile.env))
    /\ gsCalls' = Append(gsCalls, StatusRequestAll(gsArg[1]))
    /\ gsPc' = "awaitQuery"
    /\ UNCHANGED <<gsArg, gsSilent, gsEnvFile, gsRemote, gsResult, gsError, gsExit>>

\* the import or the constructor throws
GsImportRejects ==
    /\ gsPc = "importing"
    /\ gsPc' = "threw"
    /\ gsError' = "ClientError"
    /\ UNCHANGED <<gsArg, gsSilent, gsEnvFile, gsClient, gsCalls, gsRemote,
                   gsResult, gsExit>>

\* the query fulfils: its result is printed unless silent, and returned
GsQueryResolves ==
    /\ gsPc = "awaitQuery"
    /\ \E result \in StatusResults :
         /\ gsRemote' = result
         /\ gsResult' = result
    /\ gsPc' = "returned"
    /\ UNCHANGED <<gsArg, gsSilent, gsEnvFile, gsClient, gsCalls, gsError, gsExit>>

\* the query fails
GsQueryRejects ==
    /\ gsPc = "awaitQuery"
    /\ gsPc' = "threw"
    /\ gsError' = "QueryError"
    /\ UNCHANGED <<gsArg, gsSilent, gsEnvFile, gsClient, gsCalls, gsRemote,
                   gsResult, gsExit>>

NextGs ==
    \/ GsCall /\ UNCHANGED beyondGs
    \/ GsImportResolves /\ UNCHANGED beyondGs
    \/ GsImportRejects /\ UNCHANGED beyondGs
    \/ GsQueryResolves /\ UNCHANGED beyondGs
    \/ GsQueryRejects /\ UNCHANGED beyondGs

SpecGs == InitSpec /\ [][NextGs]_vars

(* ---------------------------------------------------------------------- *)
(* getRootDir                                                              *)
(* ---------------------------------------------------------------------- *)

\* A directory on the path from the file system root to callerDir is named
\* by its depth: 0 is the root.

\* for (...; i < 10; ...)
RootLevels == 10

\* resolve(dir, ".."): the parent; the root is its own parent
ParentDir(dir) == IF dir > 0 THEN dir - 1 ELSE 0

\* variant of the fallback that goes up three directories
RootFallbackThree(callerDir) == ParentDir(ParentDir(ParentDir(callerDir)))

\* resolve(callerDir, "../../../..")
RootFallback(callerDir) ==
    ParentDir(ParentDir(ParentDir(ParentDir(callerDir))))

\* getRootDir(importMetaUrl) is called; the loop starts at callerDir
RdCall ==
    /\ rdPc = "idle"
    /\ \E d \in 0..MaxDepth :
         \E pkg \in SUBSET (0..d) :
            /\ rdCaller' = d
            /\ rdPkg' = pkg
            /\ rdCur' = d
    /\ rdI' = 0
    /\ rdPc' = "loop"
    /\ UNCHANGED <<rdChecks, rdResult>>

\* one turn of the loop: currentDir is returned if it has a package.json,
\* otherwise the loop goes on with its parent
RdCheck ==
    /\ rdPc = "loop"
    /\ rdI < RootLevels
    /\ rdChecks' = rdChecks + 1
    /\ IF rdCur \in rdPkg
       THEN /\ rdResult' = <<rdCur>>
            /\ rdPc' = "returned"
            /\ UNCHANGED <<rdI, rdCur>>
       ELSE /\ rdCur' = ParentDir(rdCur)
            /\ rdI' = rdI + 1
            /\ UNCHANGED <<rdPc, rdResult>>
    /\ UNCHANGED <<rdCaller, rdPkg>>

\* the loop has run out: the fallback
RdFallback ==
    /\ rdPc = "loop"
    /\ ~(rdI < RootLevels)
    /\ rdResult' = <<RootFallback(rdCaller)>>
    /\ rdPc' = "returned"
    /\ UNCHANGED <<rdCaller, rdPkg, rdI, rdCur, rdChecks>>

NextRd ==
    \/ RdCall /\ UNCHANGED beyondRd
    \/ RdCheck /\ UNCHANGED beyondRd
    \/ RdFallback /\ UNCHANGED beyondRd

\* getRootDir is synchronous: once called it runs on
SpecRd ==
    /\ InitSpec
    /\ [][NextRd]_vars
    /\ WF_vars((RdCheck \/ RdFallback) /\ UNCHANGED beyondRd)

(* ---------------------------------------------------------------------- *)
(* loadEnv                                                                 *)
(* ---------------------------------------------------------------------- *)

\* A string is the sequence of its characters.
EnvChars == {" ", "#", "=", "k"}

\* the lines of a .env
EnvLines == UNION {[1..n -> EnvChars] : n \in 0..MaxLineLen}

\* String.prototype.trim
RECURSIVE TrimStart(_)
TrimStart(str) ==
    IF Len(str) > 0 /\ str[1] = " " THEN TrimStart(Tail(str)) ELSE str

RECURSIVE TrimEnd(_)
TrimEnd(str) ==
    IF Len(str) > 0 /\ str[Len(str)] = " "
    THEN TrimEnd(SubSeq(str, 1, Len(str) - 1))
    ELSE str

Trim(str) == TrimEnd(TrimStart(str))

\* str.startsWith(c)
StartsWith(str, c) == Len(str) > 0 /\ str[1] = c

\* str.split(c): the pieces between the occurrences of c
RECURSIVE Split(_, _)
Split(str, c) ==
    IF \E k \in 1..Len(str) : str[k] = c
    THEN LET k == CHOOSE k \in 1..Len(str) :
                     str[k] = c /\ \A j \in 1..(k - 1) : str[j] # c
         IN <<SubSeq(str, 1, k - 1)>> \o Split(SubSeq(str, k + 1, Len(str)), c)
    ELSE <<str>>

\* variant of the join that puts nothing between the pieces
RECURSIVE JoinBare(_, _)
JoinBare(parts, c) ==
    IF Len(parts) = 0 THEN <<>> ELSE parts[1] \o JoinBare(Tail(parts), c)

\* parts.join(c)
RECURSIVE Join(_, _)
Join(parts, c) ==
    IF Len(parts) = 0 THEN <<>>
    ELSE IF Len(parts) = 1 THEN parts[1]
    ELSE parts[1] \o <<c>> \o Join(Tail(parts), c)

\* env[key] = value
SetEnv(env, key, value) ==
    [x \in (DOMAIN env) \cup {key} |-> IF x = key THEN value ELSE env[x]]

\* the forEach callback: what env is after it has run on line
ParseLine(env, line) ==
    LET trimmedLine == Trim(line)
    IN IF trimmedLine = <<>> \/ StartsWith(trimmedLine, "#")
       THEN env
       ELSE LET parts == Split(trimmedLine, "=")
                key == parts[1]
                valueParts == Tail(parts)
            IN IF key # <<>> /\ Len(valueParts) > 0
               THEN SetEnv(env, Trim(key), Trim(Join(valueParts, "=")))
               ELSE env

\* loadEnv(rootDir) is called: readFileSync throws, or the lines are at hand
LeCall ==
    /\ lePc = "idle"
    /\ \E readable \in BOOLEAN :
         IF readable
         THEN lePc' = "lines" /\ leExit' = leExit
         ELSE lePc' = "exited" /\ leExit' = <<1>>
    /\ UNCHANGED <<leLine, leCount, leEnv, leResult>>

\* forEach calls the callback with the next line
LeNextLine ==
    /\ lePc = "lines"
    /\ leCount < MaxLines
    /\ \E line \in EnvLines : leLine' = line
    /\ leCount' = leCount + 1
    /\ lePc' = "callback"
    /\ UNCHANGED <<leEnv, leResult, leExit>>

\* the callback runs, and its parameter is gone
LeCallback ==
    /\ lePc = "callback"
    /\ leEnv' = ParseLine(leEnv, leLine)
    /\ leLine' = <<>>
    /\ lePc' = "lines"
    /\ UNCHANGED <<leCount, leResult, leExit>>

\* no line is left: return env
LeReturn ==
    /\ lePc = "lines"
    /\ leResult' = leEnv
    /\ lePc' = "returned"
    /\ UNCHANGED <<leLine, leCount, leEnv, leExit>>

NextLe ==
    \/ LeCall /\ UNCHANGED beyondLe
    \/ LeNextLine /\ UNCHANGED beyondLe
    \/ LeCallback /\ UNCHANGED beyondLe
    \/ LeReturn /\ UNCHANGED beyondLe

SpecLe == InitSpec /\ [][NextLe]_vars

(* ---------------------------------------------------------------------- *)
(* Properties                                                              *)
(* ---------------------------------------------------------------------- *)

TypeOK ==
    /\ pc \in {"idle", "awaitQuery", "sleeping", "returned", "threw"}
    /\ maxAttemptsArg \in MaxAttemptsArgs
    /\ maxAttempts \in Int
    /\ i \in Nat /\ inFlight \in Nat /\ queries \in Nat /\ suspensions \in Nat
    /\ lastStatus \in StatusValues \cup {NoStatus}
    /\ nProcessing \in Nat /\ nUnrecognized \in Nat /\ nTerminal \in Nat
    /\ failedQueries \in Nat
    /\ outcome \in [success : BOOLEAN, status : STRING]
    /\ error \in {NoError, "QueryError"}

\* C1: whenever waitForDeploy has returned an outcome, its success flag is
\* true exactly when its status is SUCCESS.
C1_SuccessIffStatusSuccess ==
    pc = "returned" => (outcome.success <=> outcome.status = "SUCCESS")

\* an invocation that returned success after PROCESSING and unrecognised reports
C1_Witness ==
    /\ pc = "returned"
    /\ outcome.success
    /\ nProcessing > 0
    /\ nUnrecognized > 0

\* C2: the number of status queries issued by an invocation never exceeds
\* maxAttempts (none are issued when maxAttempts is not positive), and never
\* exceeds 30 when the maxAttempts argument is omitted.
C2_QueriesWithinBudget ==
    pc # "idle" =>
        /\ queries <= (IF maxAttempts > 0 THEN maxAttempts ELSE 0)
        /\ (maxAttemptsArg = Omitted => queries <= 30)

\* the default budget used up to its last query
C2_Witness ==
    /\ maxAttemptsArg = Omitted
    /\ queries = 30
    /\ pc = "awaitQuery"

\* C3: when the reports received are k times PROCESSING and then SUCCESS, the
\* invocation has returned {success: true, status: SUCCESS} with exactly k+1
\* queries issued and exactly k suspensions, and k < maxAttempts.
C3_EventualSuccess ==
    (lastStatus = "SUCCESS" /\ nUnrecognized = 0) =>
        /\ pc = "returned"
        /\ outcome = [success |-> TRUE, status |-> "SUCCESS"]
        /\ queries = nProcessing + 1
        /\ suspensions = nProcessing
        /\ nProcessing < maxAttempts

\* SUCCESS on the fourth call after three PROCESSING reports
C3_Witness ==
    /\ pc = "returned"
    /\ lastStatus = "SUCCESS"
    /\ nProcessing = 3
    /\ nUnrecognized = 0
    /\ queries = 4
    /\ suspensions = 3

\* SUCCESS on the first call: one query, no suspension
C3_WitnessImmediate ==
    /\ pc = "returned"
    /\ lastStatus = "SUCCESS"
    /\ queries = 1
    /\ suspensions = 0

\* C4: when a query reports FAIL or CANCEL the invocation has returned
\* {success: false, status: that status}; the reporting query is the last one
\* issued and no suspension follows it.
C4_TerminalFailure ==
    lastStatus \in {"FAIL", "CANCEL"} =>
        /\ pc = "returned"
        /\ outcome = [success |-> FALSE, status |-> lastStatus]
        /\ queries = nProcessing + nUnrecognized + 1
        /\ suspensions = nProcessing + nUnrecognized
        /\ inFlight = 0

\* CANCEL reported after non-terminal reports
C4_Witness ==
    /\ pc = "returned"
    /\ lastStatus = "CANCEL"
    /\ outcome.status = "CANCEL"
    /\ nProcessing >= 1
    /\ nUnrecognized >= 1

\* C5: with maxAttempts >= 1 and PROCESSING reported on every call, no more
\* than maxAttempts queries are issued, and the invocation returns only after
\* exactly maxAttempts queries, with {success: false, status: TIMEOUT}.
C5_TimeoutBoundary ==
    (pc # "idle" /\ maxAttempts >= 1 /\ nUnrecognized = 0 /\ nTerminal = 0) =>
        /\ queries <= maxAttempts
        /\ pc = "returned" =>
              /\ outcome = TimeoutOutcome
              /\ queries = maxAttempts
              /\ nProcessing = maxAttempts

\* three attempts, three PROCESSING reports, TIMEOUT
C5_Witness ==
    /\ pc = "returned"
    /\ maxAttempts = 3
    /\ nProcessing = 3
    /\ nUnrecognized = 0
    /\ outcome = TimeoutOutcome

\* C6: with maxAttempts zero or negative the call returns
\* {success: false, status: TIMEOUT} at once: no query is issued and no
\* suspension takes place.
C6_ZeroAttempts ==
    (pc # "idle" /\ maxAttempts <= 0) =>
        /\ pc = "returned"
        /\ outcome = TimeoutOutcome
        /\ queries = 0
        /\ suspensions = 0
        /\ inFlight = 0

\* a call with a negative budget has returned
C6_Witness ==
    /\ pc = "returned"
    /\ maxAttempts < 0
    /\ outcome = TimeoutOutcome

\* a call with a budget of zero has returned
C6_WitnessZero ==
    /\ pc = "returned"
    /\ maxAttemptsArg = <<0>>
    /\ outcome = TimeoutOutcome

\* C7: once a status query has failed, the invocation has ended with that
\* error and no outcome; the failed query is the last one issued, it is the
\* only failed one (no retry), and no suspension follows it.
C7_QueryFailurePropagates ==
    failedQueries > 0 =>
        /\ pc = "threw"
        /\ error = "QueryError"
        /\ outcome = NoOutcome
        /\ failedQueries = 1
        /\ inFlight = 0
        /\ queries = nProcessing + nUnrecognized + 1
        /\ suspensions = nProcessing + nUnrecognized

\* the third query fails after two non-terminal reports
C7_Witness ==
    /\ pc = "threw"
    /\ failedQueries = 1
    /\ nProcessing = 1
    /\ nUnrecognized = 1

\* C8: an outcome with status TIMEOUT is returned only with the budget
\* exhausted: exactly maxAttempts queries were issued (none when maxAttempts
\* is not positive), each was answered with a non-terminal status and was
\* followed by its suspension; so a "TIMEOUT" reported by the remote never
\* ends the wait by itself.
C8_TimeoutOnlyOnExhaustion ==
    (pc = "returned" /\ outcome.status = "TIMEOUT") =>
        /\ outcome = TimeoutOutcome
        /\ queries = (IF maxAttempts > 0 THEN maxAttempts ELSE 0)
        /\ nTerminal = 0
        /\ failedQueries = 0
        /\ nProcessing + nUnrecognized = queries
        /\ suspensions = queries

\* the remote reported the string "TIMEOUT" on the first of three calls, and
\* the wait went on to its third query
C8_Witness ==
    /\ maxAttempts = 3
    /\ queries = 3
    /\ nUnrecognized = 1
    /\ nProcessing = 1
    /\ lastStatus = "TIMEOUT"
    /\ pc = "awaitQuery"

\* the budget exhausted with the remote's last report being "TIMEOUT"
C8_WitnessReturned ==
    /\ pc = "returned"
    /\ outcome = TimeoutOutcome
    /\ lastStatus = "TIMEOUT"
    /\ maxAttempts = 2

\* C9: a fulfilled query whose status is not SUCCESS, FAIL or CANCEL, be it
\* PROCESSING or a value outside the four documented ones, has one and the
\* same effect: no error, no outcome, one suspension; after the suspension
\* the next attempt starts, which is the next query or, with the budget
\* used up, the TIMEOUT outcome.  No error arises unless a query fails, and
\* an invocation that returns without a terminal report returns TIMEOUT.
C9_UnrecognizedKeepsPolling ==
    /\ [][(/\ pc = "awaitQuery"
           /\ inFlight' = inFlight - 1
           /\ failedQueries' = failedQueries
           /\ lastStatus' \notin TerminalStatuses)
          => (/\ pc' = "sleeping"
              /\ suspensions' = suspensions + 1
              /\ queries' = queries
              /\ i' = i
              /\ error' = NoError
              /\ outcome' = NoOutcome)]_vars
    /\ [][(pc = "sleeping" /\ pc' # "sleeping")
          => (/\ i' = i + 1
              /\ suspensions' = suspensions
              /\ error' = NoError
              /\ IF i + 1 < maxAttempts
                 THEN pc' = "awaitQuery" /\ queries' = queries + 1 /\ outcome' = NoOutcome
                 ELSE pc' = "returned" /\ queries' = queries /\ outcome' = TimeoutOutcome)]_vars
    /\ [](failedQueries = 0 => (error = NoError /\ pc # "threw"))
    /\ []((pc = "returned" /\ nTerminal = 0) => outcome = TimeoutOutcome)

\* three attempts, every report outside the documented statuses, TIMEOUT
C9_Witness ==
    /\ pc = "returned"
    /\ outcome = TimeoutOutcome
    /\ maxAttempts = 3
    /\ nUnrecognized = 3
    /\ lastStatus = "UNKNOWN"
    /\ suspensions = 3

\* C10: at most one status query of the invocation is in flight, and a query
\* is issued only when every query issued before it has been answered (its
\* response classified, or its failure raised).
C10_QueriesSequential ==
    /\ [](inFlight <= 1)
    /\ [][queries' # queries
          => (/\ queries' = queries + 1
              /\ inFlight = 0
              /\ nProcessing + nUnrecognized + nTerminal + failedQueries = queries)]_vars

\* the third query in flight, the first two answered
C10_Witness ==
    /\ queries = 3
    /\ inFlight = 1
    /\ nProcessing + nUnrecognized = 2

\* C11: the suspensions of an invocation are as many as its non-terminal
\* observations: a suspension starts only in the step that observes a
\* non-terminal status, that step starts exactly one, with the timer set to
\* intervalMs, and nothing else happens in between; none starts before the
\* first query or in a step that observes SUCCESS, FAIL or CANCEL.
C11_OneSuspensionPerNonTerminal ==
    /\ [](suspensions = nProcessing + nUnrecognized)
    /\ [](queries = 0 => suspensions = 0)
    /\ [][suspensions' # suspensions
          => (/\ pc = "awaitQuery"
              /\ lastStatus' \notin TerminalStatuses
              /\ suspensions' = suspensions + 1
              /\ pc' = "sleeping"
              /\ timerDelay' = intervalMs
              /\ timerLeft' = intervalMs
              /\ queries' = queries)]_vars
    /\ [][(pc = "awaitQuery" /\ pc' # "awaitQuery" /\ failedQueries' = failedQueries)
          => IF lastStatus' \in TerminalStatuses
             THEN suspensions' = suspensions /\ pc' = "returned"
             ELSE suspensions' = suspensions + 1 /\ pc' = "sleeping"]_vars

\* FAIL observed after two non-terminal reports and two suspensions
C11_Witness ==
    /\ pc = "returned"
    /\ lastStatus = "FAIL"
    /\ nProcessing = 1
    /\ nUnrecognized = 1
    /\ suspensions = 2
    /\ intervalMs = 2

\* C13: whenever a query follows another one, at least intervalMs have passed
\* between the response to the earlier one and the issue of the later one,
\* and so at least intervalMs between the issue of the two.
C13_IntervalFidelity ==
    queries >= 2 => (lastSleep >= intervalMs /\ lastGap >= lastSleep)

\* a second query issued after a first one that took 2 ms and a sleep of 2 ms
C13_Witness ==
    /\ queries = 2
    /\ intervalMs = 2
    /\ lastSleep = 2
    /\ lastGap = 4

\* the default interval: the second query issued 1000 ms after the response
C13_WitnessDefault ==
    /\ queries = 2
    /\ intervalMsArg = Omitted
    /\ lastSleep = 1000

\* C14: the only operation the waiter invokes on the client is
\* getDeployStatus, each time with an apps array holding just the appId it
\* was given; it invokes one for every query, and the client object stays as
\* it was handed in.
C14_ObservesOnly ==
    /\ \A c \in calls : c.op = "getDeployStatus" /\ c.apps = <<appId>>
    /\ (queries > 0 <=> calls # {})
    /\ client = TheClient

\* three queries for app 52
C14_Witness ==
    /\ queries = 3
    /\ appId = "52"
    /\ calls = {[op |-> "getDeployStatus", apps |-> <<"52">>]}

\* C16: with every query answered and every timer firing, an invocation that
\* was called ends: it returns one outcome (and raises nothing) or raises an
\* error (and returns nothing), and once ended it does nothing more.
C16_Terminates ==
    /\ (pc # "idle") ~> (pc \in {"returned", "threw"})
    /\ [](pc = "returned" => (outcome # NoOutcome /\ error = NoError))
    /\ [](pc = "threw" => (outcome = NoOutcome /\ error # NoError))
    /\ [][(pc \in {"returned", "threw"}) => (vars' = vars)]_vars

\* the default budget used up with PROCESSING alone: TIMEOUT after 30 queries
C16_Witness ==
    /\ pc = "returned"
    /\ maxAttemptsArg = Omitted
    /\ nProcessing = 30
    /\ outcome = TimeoutOutcome

\* C19: a response without entries, or whose first entry has no status, is
\* read as a missing status and handled as a non-terminal one: no error, no
\* outcome, one suspension, the loop goes on.
C19_MissingStatusKeepsPolling ==
    /\ []((lastStatus # NoStatus /\ lastLen = 0) => lastStatus = Undefined)
    /\ [][(/\ pc = "awaitQuery"
           /\ inFlight' = inFlight - 1
           /\ failedQueries' = failedQueries
           /\ (lastLen' = 0 \/ lastStatus' = Undefined))
          => (/\ lastStatus' = Undefined
              /\ pc' = "sleeping"
              /\ suspensions' = suspensions + 1
              /\ nUnrecognized' = nUnrecognized + 1
              /\ i' = i
              /\ error' = NoError
              /\ outcome' = NoOutcome)]_vars
    /\ [](lastStatus = Undefined => pc \in {"sleeping", "awaitQuery", "returned", "threw"})
    /\ []((lastStatus = Undefined /\ pc = "returned") => outcome = TimeoutOutcome)
    /\ []((lastStatus = Undefined /\ pc = "threw") => failedQueries = 1)

\* an empty apps array answered the first query and the second query is out
C19_Witness ==
    /\ lastLen = 0
    /\ lastStatus = Undefined
    /\ queries = 2
    /\ pc = "awaitQuery"

\* a first entry without a status answered the first query
C19_WitnessNoField ==
    /\ lastLen = 1
    /\ lastStatus = Undefined
    /\ queries = 1
    /\ pc = "sleeping"

\* C20: an outcome with status SUCCESS, FAIL or CANCEL carries the status the
\* last query reported, and every query before it reported a non-terminal
\* status; an invocation that ended without a terminal report either used up
\* its budget or raised the error of a failed query.
C20_StopsOnlyOnTerminalOrBudget ==
    /\ (pc = "returned" /\ outcome.status \in TerminalStatuses) =>
          /\ outcome.status = lastStatus
          /\ nTerminal = 1
          /\ failedQueries = 0
          /\ queries = nProcessing + nUnrecognized + 1
    /\ (pc = "returned" /\ outcome.status \notin TerminalStatuses) =>
          /\ nTerminal = 0
          /\ failedQueries = 0
          /\ queries = (IF maxAttempts > 0 THEN maxAttempts ELSE 0)
          /\ queries = nProcessing + nUnrecognized
    /\ pc = "threw" =>
          /\ nTerminal = 0
          /\ failedQueries = 1
          /\ queries = nProcessing + nUnrecognized + 1

\* CANCEL reported by the fourth and last query, after three non-terminal reports
C20_Witness ==
    /\ pc = "returned"
    /\ outcome = [success |-> FALSE, status |-> "CANCEL"]
    /\ lastStatus = "CANCEL"
    /\ queries = 4
    /\ nProcessing + nUnrecognized = 3
    /\ maxAttemptsArg = Omitted

\* C12: of two invocations for different apps, each with its own client and
\* status sequence, and interleaved in any way, each one ends as it would
\* when run alone: same outcome or error, same number of queries and
\* suspensions; it never issues more queries than it would alone, and its
\* client only ever sees queries for its own app.
C12_NonInterference ==
    \A w \in Waiters :
        /\ pw[w].pc \in Ended =>
              Result(pw[w]) = RunAlone(pw[w].max, pw[w].script)
        /\ pw[w].pc # "idle" =>
              pw[w].queries <= RunAlone(pw[w].max, pw[w].script).queries
        /\ pw[w].calls \subseteq {StatusRequest(AppOf(w))}

\* both were running at the same time; the first succeeded on its second
\* query, the second used up its two attempts
C12_Witness ==
    /\ ~pw[1].after /\ ~pw[2].after
    /\ pw[1].pc = "returned" /\ pw[2].pc = "returned"
    /\ pw[1].script = <<"PROCESSING", "SUCCESS">>
    /\ pw[2].script = <<"PROCESSING", "PROCESSING">>
    /\ pw[1].outcome = [success |-> TRUE, status |-> "SUCCESS"]
    /\ pw[2].outcome = TimeoutOutcome
    /\ pw[2].queries = 2

\* C15: every call sets the attempt counter to 0, whatever went before; an
\* invocation called after another one has ended, with the same maxAttempts
\* and against the same sequence of reports, ends as that one did: same
\* outcome or error after the same number of queries.
C15_StatelessAcrossInvocations ==
    /\ [][\A w \in Waiters :
            (pw[w].pc = "idle" /\ pw'[w].pc # "idle") => cells'[w] = 0]_vars
    /\ [](\A w \in Waiters :
            (/\ pw[w].after
             /\ pw[w].pc \in Ended
             /\ pw[w].max = pw[Other(w)].max
             /\ pw[w].script = pw[Other(w)].script)
            => Result(pw[w]) = Result(pw[Other(w)]))

\* the second invocation was called after the first had timed out after two
\* queries, and it timed out after two queries as well
C15_Witness ==
    /\ pw[2].after
    /\ pw[1].pc = "returned" /\ pw[2].pc = "returned"
    /\ pw[1].max = 2 /\ pw[2].max = 2
    /\ pw[1].script = <<"PROCESSING", "PROCESSING">>
    /\ pw[2].script = pw[1].script
    /\ pw[2].outcome = TimeoutOutcome
    /\ pw[2].queries = 2

\* the second invocation was called after the first had ended with an error
C15_WitnessAfterError ==
    /\ pw[2].after
    /\ pw[1].pc = "threw" /\ pw[2].pc = "threw"
    /\ pw[1].script = <<"PROCESSING", "REJECT">>
    /\ pw[2].script = pw[1].script
    /\ pw[2].queries = 2

\* C17: the deploy-app process ends with code 0 or 1. It ends with 1 when an
\* error was thrown (creating the client, deployApp, or a status query) and
\* when waitForDeploy returned an unsuccessful outcome (FAIL, CANCEL or
\* TIMEOUT); it ends with 0 when waitForDeploy returned success and when
\* deployApp went through under --revert or --no-wait; and it never ends
\* with 0 otherwise.
C17_ExitCodes ==
    /\ (cliPc = "exited") <=> (exitCode # NoExit)
    /\ cliPc = "exited" =>
         /\ exitCode \in {<<0>>, <<1>>}
         /\ cliError # NoError => exitCode = <<1>>
         /\ pc = "threw" => exitCode = <<1>>
         /\ (pc = "returned" /\ ~outcome.success) => exitCode = <<1>>
         /\ (pc = "returned" /\ outcome.status \in {"FAIL", "CANCEL", "TIMEOUT"})
              => exitCode = <<1>>
         /\ (pc = "returned" /\ outcome.success) => exitCode = <<0>>
         /\ (/\ cliCalls # {}
             /\ cliError = NoError
             /\ (cliArgs.revert \/ cliArgs.noWait)) => exitCode = <<0>>
         /\ exitCode = <<0>> => (cliResult.success /\ cliError = NoError)

\* the deployment was still running after the 30 queries of the default
\* budget: the process ended with 1
C17_Witness ==
    /\ cliPc = "exited"
    /\ outcome = TimeoutOutcome
    /\ queries = DefaultMaxAttempts
    /\ exitCode = <<1>>

\* the deployment succeeded on a later query: the process ended with 0
C17_WitnessSuccess ==
    /\ cliPc = "exited"
    /\ outcome = [success |-> TRUE, status |-> "SUCCESS"]
    /\ queries = 3
    /\ exitCode = <<0>>

\* the client could not be created: the process ended with 1
C17_WitnessClientError ==
    /\ cliPc = "exited"
    /\ cliError = "ClientError"
    /\ cliClient = NoClient
    /\ exitCode = <<1>>

\* a status query failed: the process ended with 1
C17_WitnessQueryError ==
    /\ cliPc = "exited"
    /\ pc = "threw"
    /\ cliError = "QueryError"
    /\ exitCode = <<1>>

\* C18: credentials come out of the loading only when the .env was read and
\* sets KINTONE_DOMAIN, KINTONE_USERNAME and KINTONE_PASSWORD to non-empty
\* values; a client is built and remote calls are made only with
\* credentials; when the file cannot be read or one of the three is missing
\* or empty, the process has ended with code 1 with no client built and no
\* remote call made.
C18_CredentialGate ==
    LET e == envFile.env
        complete ==
            /\ envFile.readable
            /\ e.KINTONE_DOMAIN \notin {Undefined, ""}
            /\ e.KINTONE_USERNAME \notin {Undefined, ""}
            /\ e.KINTONE_PASSWORD \notin {Undefined, ""}
    IN /\ credentials # NoCredentials =>
            /\ complete
            /\ credentials.domain = e.KINTONE_DOMAIN
            /\ credentials.username = e.KINTONE_USERNAME
            /\ credentials.password = e.KINTONE_PASSWORD
       /\ cliClient # NoClient => credentials # NoCredentials
       /\ (cliCalls # {} \/ calls # {}) => cliClient # NoClient
       /\ (cliPc # "start" /\ cliArgs.appId # NoApp /\ ~complete) =>
            /\ cliPc = "exited"
            /\ exitCode = <<1>>
            /\ credentials = NoCredentials
            /\ cliClient = NoClient
            /\ cliCalls = {}
            /\ calls = {}

\* the .env sets user and password but leaves the domain empty: the process
\* ended with 1, without a client and without a remote call
C18_Witness ==
    /\ cliPc = "exited"
    /\ envFile.readable
    /\ envFile.env.KINTONE_DOMAIN = ""
    /\ envFile.env.KINTONE_USERNAME = "user"
    /\ envFile.env.KINTONE_PASSWORD = "secret"
    /\ exitCode = <<1>>
    /\ cliClient = NoClient
    /\ cliCalls = {}

\* the .env could not be read
C18_WitnessNoFile ==
    /\ cliPc = "exited"
    /\ cliArgs.appId # NoApp
    /\ ~envFile.readable
    /\ exitCode = <<1>>
    /\ cliClient = NoClient

\* a complete .env: the client was built for the domain and used
C18_WitnessLoaded ==
    /\ credentials # NoCredentials
    /\ cliClient.baseUrl = "https://example.cybozu.com"
    /\ cliCalls # {}
    /\ calls # {}

\* C21: in a deploy-app run a status query is issued, and waitForDeploy is
\* invoked, only once the deployApp call for the same app has fulfilled; when
\* deployApp rejects, waitForDeploy is never invoked, no status query is
\* issued, and the process has ended with code 1.
C21_QueryOnlyAfterDeploy ==
    /\ (pc # "idle" \/ queries > 0 \/ calls # {}) =>
         /\ cliDeploy = "fulfilled"
         /\ DeployRequest(cliArgs.appId, cliArgs.revert) \in cliCalls
         /\ appId = cliArgs.appId
         /\ calls = {StatusRequest(cliArgs.appId)}
    /\ cliDeploy = "rejected" =>
         /\ pc = "idle"
         /\ queries = 0
         /\ calls = {}
         /\ cliPc = "exited"
         /\ exitCode = <<1>>

\* deployApp for app 52 was rejected: the process ended with 1 without a query
C21_Witness ==
    /\ cliDeploy = "rejected"
    /\ cliArgs = [appId |-> "52", revert |-> FALSE, noWait |-> FALSE]
    /\ cliCalls = {DeployRequest("52", FALSE)}
    /\ cliPc = "exited"
    /\ calls = {}

\* deployApp for app 52 fulfilled and the second status query is on its way
C21_WitnessQueried ==
    /\ cliDeploy = "fulfilled"
    /\ cliArgs.appId = "52"
    /\ calls = {StatusRequest("52")}
    /\ pc = "awaitQuery"
    /\ queries = 2

\* C22: a deploy-app run with --revert or --no-wait never invokes
\* waitForDeploy and issues no status query; once deployApp has fulfilled it
\* has returned success with status REVERTED under --revert (also when
\* --no-wait is given as well) and with status PROCESSING under --no-wait
\* alone, and ended with code 0; a run with neither flag invokes
\* waitForDeploy as soon as deployApp has fulfilled.
C22_RevertAndNoWaitDoNotWait ==
    /\ (cliArgs.revert \/ cliArgs.noWait) =>
         (pc = "idle" /\ queries = 0 /\ calls = {} /\ suspensions = 0)
    /\ (cliDeploy = "fulfilled" /\ cliArgs.revert) =>
         /\ cliResult = [success |-> TRUE, status |-> "REVERTED"]
         /\ cliPc = "exited"
         /\ exitCode = <<0>>
    /\ (cliDeploy = "fulfilled" /\ ~cliArgs.revert /\ cliArgs.noWait) =>
         /\ cliResult = [success |-> TRUE, status |-> "PROCESSING"]
         /\ cliPc = "exited"
         /\ exitCode = <<0>>
    /\ (cliDeploy = "fulfilled" /\ ~cliArgs.revert /\ ~cliArgs.noWait) =>
         (pc # "idle" /\ queries >= 1)

\* both flags given: the run reverted
C22_Witness ==
    /\ cliArgs.revert /\ cliArgs.noWait
    /\ cliDeploy = "fulfilled"
    /\ cliResult.status = "REVERTED"
    /\ cliCalls = {DeployRequest(cliArgs.appId, TRUE)}
    /\ calls = {}

\* --no-wait alone
C22_WitnessNoWait ==
    /\ ~cliArgs.revert /\ cliArgs.noWait
    /\ cliDeploy = "fulfilled"
    /\ cliResult.status = "PROCESSING"
    /\ exitCode = <<0>>

\* neither flag: the run waits
C22_WitnessWaits ==
    /\ ~cliArgs.revert /\ ~cliArgs.noWait
    /\ cliDeploy = "fulfilled"
    /\ pc = "sleeping"

\* C23: only the first entry of a response is classified. A response whose
\* first entry has not ended (or is missing) sends the invocation into its
\* suspension with no outcome, whatever its second and later entries report;
\* and a returned outcome other than TIMEOUT carries the status of the first
\* entry of the last response.
C23_FirstEntryOnly ==
    /\ [][(/\ pc = "awaitQuery"
           /\ inFlight' = inFlight - 1
           /\ failedQueries' = failedQueries
           /\ (Len(lastApps') = 0 \/ lastApps'[1].status \notin TerminalStatuses))
          => (/\ pc' = "sleeping"
              /\ suspensions' = suspensions + 1
              /\ outcome' = NoOutcome)]_vars
    /\ []((pc = "returned" /\ outcome # TimeoutOutcome) =>
            /\ Len(lastApps) >= 1
            /\ lastApps[1].status \in TerminalStatuses
            /\ outcome.status = lastApps[1].status)

\* the first entry reported PROCESSING and the second SUCCESS: the
\* invocation is in its suspension
C23_Witness ==
    /\ lastApps = <<[status |-> "PROCESSING"], [status |-> "SUCCESS"]>>
    /\ pc = "sleeping"
    /\ outcome = NoOutcome

\* FAIL in the second entry on every response: the invocation ended in TIMEOUT
C23_WitnessTimeout ==
    /\ lastApps = <<[status |-> "PROCESSING"], [status |-> "FAIL"]>>
    /\ pc = "returned"
    /\ outcome = TimeoutOutcome
    /\ maxAttempts = 2

\* the first entry decides also against a different second entry
C23_WitnessFirstWins ==
    /\ lastApps = <<[status |-> "CANCEL"], [status |-> "SUCCESS"]>>
    /\ pc = "returned"
    /\ outcome = [success |-> FALSE, status |-> "CANCEL"]

\* C24: an outcome returned by waitForDeploy has one of the statuses SUCCESS,
\* FAIL, CANCEL and TIMEOUT, whatever the remote reported: never PROCESSING,
\* never a value outside the documented ones, never an undefined status; and
\* before the return there is no outcome.
C24_OutcomeStatusDomain ==
    /\ pc = "returned" =>
         /\ outcome.status \in {"SUCCESS", "FAIL", "CANCEL", "TIMEOUT"}
         /\ outcome.status \notin {"PROCESSING", "UNKNOWN", Undefined}
         /\ outcome.success \in BOOLEAN
    /\ pc # "returned" => outcome = NoOutcome

\* the remote reported PROCESSING, then values that are not documented or not
\* there, then CANCEL
C24_Witness ==
    /\ pc = "returned"
    /\ nProcessing = 1
    /\ nUnrecognized = 2
    /\ lastStatus = "CANCEL"
    /\ outcome.status = "CANCEL"

\* the last report was an undefined status and the budget ran out
C24_WitnessUndefined ==
    /\ pc = "returned"
    /\ lastStatus = Undefined
    /\ outcome.status = "TIMEOUT"
    /\ queries = 2

\* C25: an invocation with maxAttempts >= 1 that returns TIMEOUT has suspended
\* maxAttempts times for maxAttempts queries: the response to the last query
\* is followed by one more suspension of at least intervalMs, and the TIMEOUT
\* outcome is returned from that suspension, when its timer has expired,
\* without a further query.
C25_SleepsBeforeTimeout ==
    /\ []((pc = "returned" /\ outcome = TimeoutOutcome /\ maxAttempts >= 1) =>
            /\ suspensions = maxAttempts
            /\ queries = maxAttempts
            /\ timerDelay = intervalMs
            /\ timerLeft = 0
            /\ sinceResponse >= intervalMs)
    /\ [][(/\ pc # "returned"
           /\ pc' = "returned"
           /\ outcome' = TimeoutOutcome
           /\ maxAttempts' >= 1)
          => (/\ pc = "sleeping"
              /\ timerLeft = 0
              /\ suspensions = maxAttempts
              /\ suspensions' = suspensions
              /\ queries' = queries
              /\ calls' = calls)]_vars

\* two attempts with an interval of 2 ms: TIMEOUT after the second suspension
C25_Witness ==
    /\ pc = "returned"
    /\ outcome = TimeoutOutcome
    /\ maxAttempts = 2
    /\ intervalMs = 2
    /\ suspensions = 2
    /\ sinceResponse = 2

\* C26: getDeployStatus called without appIds or with an empty list throws
\* "At least one App ID is required" with no .env read, no client built and
\* no remote call made; for a non-empty list it never issues more than one
\* status query, that query carries exactly the given ids, and when it
\* returns it has issued that one query and returns what the remote answered.
C26_GetDeployStatus ==
    /\ (gsPc # "idle" /\ (gsArg = Omitted \/ gsArg = <<(<<>>)>>)) =>
         /\ gsPc = "threw"
         /\ gsError = "At least one App ID is required"
         /\ ~gsEnvFile.readable
         /\ gsClient = NoClient
         /\ gsCalls = <<>>
         /\ gsResult = NoResult
    /\ Len(gsCalls) <= 1
    /\ Len(gsCalls) = 1 =>
         /\ gsClient # NoClient
         /\ gsArg # Omitted
         /\ gsCalls[1].op = "getDeployStatus"
         /\ gsCalls[1].apps = gsArg[1]
         /\ Len(gsCalls[1].apps) >= 1
    /\ gsPc = "returned" =>
         /\ Len(gsCalls) = 1
         /\ gsResult = gsRemote
         /\ gsError = NoError
    /\ gsPc # "returned" => gsResult = NoResult

\* called with an empty list
C26_Witness ==
    /\ gsPc = "threw"
    /\ gsArg = <<(<<>>)>>
    /\ gsCalls = <<>>

\* called without a list
C26_WitnessMissing ==
    /\ gsPc = "threw"
    /\ gsArg = Omitted
    /\ gsClient = NoClient

\* called with two ids: one query for both, the answer returned as it came
C26_WitnessReturned ==
    /\ gsPc = "returned"
    /\ gsArg = <<(<<"51", "52">>)>>
    /\ gsCalls = <<StatusRequestAll(<<"51", "52">>)>>
    /\ gsResult = [apps |-> <<[app |-> "51", status |-> "SUCCESS"],
                               [app |-> "52", status |-> "PROCESSING"]>>]

C27_WitnessNearest ==
    /\ rdPc = "returned"
    /\ rdCaller = 5
    /\ rdPkg = {0, 2}
    /\ rdResult = <<2>>
    /\ rdChecks = 4

\* What the statements about loadEnv say of one line, with env the object
\* before the line: the line without the blanks at its ends; the text before
\* its first '=' and the remainder after it.
LineCore(line) ==
    LET ink == {k \in 1..Len(line) : line[k] # " "}
    IN IF ink = {} THEN <<>>
       ELSE SubSeq(line,
                   CHOOSE a \in ink : \A k \in ink : a <= k,
                   CHOOSE b \in ink : \A k \in ink : k <= b)

FirstEquals(str) ==
    CHOOSE k \in 1..Len(str) : str[k] = "=" /\ \A j \in 1..(k - 1) : str[j] # "="

KeyText(str) == LineCore(SubSeq(str, 1, FirstEquals(str) - 1))
ValueText(str) == LineCore(SubSeq(str, FirstEquals(str) + 1, Len(str)))

\* blank lines, lines starting with # and lines without '=' contribute
\* nothing; every other line sets env[key text] to the value text
EffectAsStated(env, line) ==
    LET t == LineCore(line)
    IN IF t = <<>> \/ t[1] = "#" \/ (\A k \in 1..Len(t) : t[k] # "=")
       THEN env
       ELSE [x \in (DOMAIN env) \cup {KeyText(t)} |->
               IF x = KeyText(t) THEN ValueText(t) ELSE env[x]]

\* the same, with the lines that have nothing before their first '=' among
\* those that contribute nothing
EffectWithKey(env, line) ==
    LET t == LineCore(line)
    IN IF t = <<>> \/ t[1] = "#" \/ (\A k \in 1..Len(t) : t[k] # "=") \/ t[1] = "="
       THEN env
       ELSE [x \in (DOMAIN env) \cup {KeyText(t)} |->
               IF x = KeyText(t) THEN ValueText(t) ELSE env[x]]

\* C28 as stated: every line that is not blank, does not start with # and
\* has a '=' sets env[trimmed text before the first '='] to the trimmed
\* remainder after it; all other lines leave env as it is.
C28_AsStated ==
    [][(lePc = "callback") => (leEnv' = EffectAsStated(leEnv, leLine))]_vars

\* C28: loadEnv goes through the lines one by one and returns the env it has
\* built.  Blank lines, lines starting with #, lines without '=' and lines
\* with nothing before their first '=' leave env as it is; every other line
\* sets env[trimmed text before the first '='] to the trimmed remainder after
\* the first '=' (later '=' kept), replacing what an earlier line had set for
\* the same key.
C28_ParseLines ==
    /\ [][(lePc = "callback") => (leEnv' = EffectWithKey(leEnv, leLine))]_vars
    /\ [][(lePc # "callback") => (leEnv' = leEnv)]_vars
    /\ [](lePc = "returned" => leResult = leEnv)
    /\ [](lePc \notin {"idle", "exited"} => leExit = NoExit)

\* the lines "k==" and "k=k": the later one decides
C28_Witness ==
    /\ lePc = "returned"
    /\ leCount = 2
    /\ leResult = [x \in {<<"k">>} |-> <<"k">>]

\* the line "k==": the value keeps the second '='
C28_WitnessLaterEquals ==
    /\ lePc = "returned"
    /\ leCount = 1
    /\ leResult = [x \in {<<"k">>} |-> <<"=">>]

====
